---- MODULE Spec2Model ----
(***************************************************************************)
(* Model of the notebook Querying_JWST_in_astroquery.ipynb:                *)
(*   - load_targets_from_file, the CSV target-loading helper, stepped      *)
(*     through its statements (argument asserts, read_csv + rename,        *)
(*     column resolution, row extraction);                                 *)
(*   - the target-list search cells (count loop, fetch loop, vstack,       *)
(*     display_results).                                                   *)
(* Strings are sequences of one-character strings so that strip(),         *)
(* lower() and endswith() are computed, not assumed.                       *)
(***************************************************************************)
EXTENDS Integers, Sequences, FiniteSets, TLC

VARIABLES
    pc,          \* position inside load_targets_from_file
    args,        \* the call's arguments as passed by the caller
    file,        \* what the filesystem holds under args.filename
    namecol,     \* local namecol (reassigned at line 373)
    racol,       \* local racol   (reassigned at line 381)
    deccol,      \* local deccol  (reassigned at line 382)
    df,          \* the DataFrame read at lines 368-369
    fileOpened,  \* TRUE once pd.read_csv has been called
    extracted,   \* TRUE once a column of row values has been taken from df
    result,      \* the returned list
    err,         \* the exception that ended the call ("" if none)
    errcol,      \* the column named in the assertion message
    spc,         \* position inside the target-list search cells
    targetIds,   \* the list the count map is built from
    tKeys,       \* keys of the dict targets, in insertion order
    tVals,       \* values of the dict targets
    it,          \* position of the running for-loop in tKeys
    countLog,    \* count queries issued so far: <<target, returned count>>
    fetchLog,    \* targets a full query was issued for, in order
    obs_list,    \* the list of fetched tables
    target_matches, \* the stacked table
    serr,        \* the exception that ended the search ("" if none)
    fetched,     \* the rows the full queries returned, as returned, in order
    ecsv         \* the table written to target_matches.ecsv

loadVars == <<pc, args, file, namecol, racol, deccol, df, fileOpened,
              extracted, result, err, errcol>>
searchVars == <<spc, targetIds, tKeys, tVals, it, countLog, fetchLog,
                obs_list, target_matches, serr, fetched, ecsv>>
vars == <<pc, args, file, namecol, racol, deccol, df, fileOpened,
          extracted, result, err, errcol, spc, targetIds, tKeys, tVals, it,
          countLog, fetchLog, obs_list, target_matches, serr, fetched, ecsv>>

----------------------------------------------------------------------------
(* Bounds *)

MaxCols == 3
MaxRows == 2
MaxTargets == 3
MaxCount == 2
MaxRecs == 1

----------------------------------------------------------------------------
(* Python str operations *)

UpperChars == <<"A","B","C","D","E","F","G","H","I","J","K","L","M",
                "N","O","P","Q","R","S","T","U","V","W","X","Y","Z">>
LowerChars == <<"a","b","c","d","e","f","g","h","i","j","k","l","m",
                "n","o","p","q","r","s","t","u","v","w","x","y","z">>

IsSpace(c) == c \in {" ", "\t"}

LowerChar(c) ==
    IF \E k \in 1..Len(UpperChars) : UpperChars[k] = c
    THEN LowerChars[CHOOSE k \in 1..Len(UpperChars) : UpperChars[k] = c]
    ELSE c

\* str.lower()
Lower(s) == [k \in 1..Len(s) |-> LowerChar(s[k])]

RECURSIVE LStrip(_)
LStrip(s) == IF s # <<>> /\ IsSpace(Head(s)) THEN LStrip(Tail(s)) ELSE s

RECURSIVE RStrip(_)
RStrip(s) ==
    IF s # <<>> /\ IsSpace(s[Len(s)]) THEN RStrip(SubSeq(s, 1, Len(s) - 1)) ELSE s

\* str.strip()
Strip(s) == RStrip(LStrip(s))

\* x.strip().lower()
Normalize(s) == Lower(Strip(s))

\* str.endswith(suffix)
EndsWith(s, suf) ==
    /\ Len(s) >= Len(suf)
    /\ SubSeq(s, Len(s) - Len(suf) + 1, Len(s)) = suf

DotCsv == <<".","c","s","v">>

----------------------------------------------------------------------------
(* Inputs *)

S_target_name == <<"t","a","r","g","e","t","_","n","a","m","e">>
S_ra == <<"r","a">>
S_dec == <<"d","e","c">>

\* header names as they may stand in a file
RawHeaders == { S_target_name, <<" ","R","A">>, S_ra, <<"D","E","C"," ">> }

\* values a caller may pass for namecol / racol / deccol
Overrides == { <<>>, S_target_name, S_ra, S_dec, <<" ","R","a"," ">>, <<"z">> }

FileNames == { <<"t",".","c","s","v">>, <<"t",".","t","x","t">> }

LoadBys == { "name", "coord", "both" }

RECURSIVE SeqsUpTo(_, _)
SeqsUpTo(S, n) ==
    IF n = 0 THEN { <<>> }
    ELSE LET shorter == SeqsUpTo(S, n - 1)
         IN  shorter \cup { Append(s, x) : s \in { t \in shorter : Len(t) = n - 1 }, x \in S }

\* data rows are told apart by a key; two rows with one key are duplicates
RowKeys == {1, 2}

\* the value in column c of a data row whose key is k
Cell(k, c) == 10 * k + c

NoFile == [exists |-> FALSE, header |-> <<>>, rows |-> <<>>]

\* rectangular CSV files: a header line and data rows
CsvFiles ==
    { [exists |-> TRUE,
       header |-> h,
       rows   |-> [r \in 1..Len(ks) |-> [c \in 1..Len(h) |-> Cell(ks[r], c)]]] :
         h \in SeqsUpTo(RawHeaders, MaxCols) \ { <<>> },
         ks \in SeqsUpTo(RowKeys, MaxRows) }

Files == CsvFiles \cup { NoFile }

----------------------------------------------------------------------------
(* pandas *)

EmptyDf == [columns |-> <<>>, data |-> <<>>, nrows |-> 0]

\* how many of the first k - 1 header names equal the k-th
Earlier(h, k) == Cardinality({ j \in 1..(k - 1) : h[j] = h[k] })

Digits == <<"1","2","3","4","5","6","7","8","9">>

\* read_csv renames a repeated header name x to x.1, x.2, ...
Mangle(h) ==
    [k \in 1..Len(h) |->
        IF Earlier(h, k) = 0 THEN h[k]
        ELSE h[k] \o <<".", Digits[Earlier(h, k)]>>]

\* pd.read_csv(filename): a column-major frame
ReadCsv(f) ==
    [columns |-> Mangle(f.header),
     data    |-> [c \in 1..Len(f.header) |->
                    [r \in 1..Len(f.rows) |-> f.rows[r][c]]],
     nrows   |-> Len(f.rows)]

\* the rename left out: the columns keep the names the file gives them
RenameColumns_Raw(d) == d

\* df.rename(columns=lambda x: x.strip().lower(), inplace=True)
RenameColumns(d) ==
    [d EXCEPT !.columns = [k \in 1..Len(d.columns) |-> Normalize(d.columns[k])]]

\* positions of the columns labelled label, ascending
RECURSIVE MatchesFrom(_, _, _)
MatchesFrom(cols, label, k) ==
    IF k > Len(cols) THEN <<>>
    ELSE (IF cols[k] = label THEN <<k>> ELSE <<>>) \o MatchesFrom(cols, label, k + 1)

Matches(cols, label) == MatchesFrom(cols, label, 1)

\* df[[l1, l2, ...]]: for each label in turn, every column carrying it
RECURSIVE Select(_, _)
Select(cols, labels) ==
    IF labels = <<>> THEN <<>>
    ELSE Matches(cols, Head(labels)) \o Select(cols, Tail(labels))

\* a label of a selection that no column carries (KeyError)
Missing(cols, labels) == \E k \in 1..Len(labels) : Matches(cols, labels[k]) = <<>>

\* to_list that keeps one copy of each value
RECURSIVE ToList_Unique(_)
ToList_Unique(series) ==
    IF series = <<>> THEN <<>>
    ELSE LET before == ToList_Unique(SubSeq(series, 1, Len(series) - 1))
             x == series[Len(series)]
         IN  IF \E k \in 1..Len(before) : before[k] = x THEN before ELSE Append(before, x)

\* Series.to_list()
ToList(series) == [r \in 1..Len(series) |-> series[r]]

\* DataFrame.to_records(index=False).tolist(): one tuple per row
ToRecords(d, sel) ==
    [r \in 1..d.nrows |-> [k \in 1..Len(sel) |-> d.data[sel[k]][r]]]

Min(a, b) == IF a < b THEN a ELSE b

----------------------------------------------------------------------------
(* load_targets_from_file *)

Raise(e, col) ==
    /\ pc' = "error"
    /\ err' = e
    /\ errcol' = col

Params == {"namecol", "racol", "deccol"}

\* line 338: a parameter the caller does not pass takes its default
Bind(passed, p, value, default) == IF p \in passed THEN value ELSE default

\* the caller evaluates load_targets_from_file(filename, load_by, ...)
Call ==
    /\ pc = "idle"
    /\ \E fn \in FileNames, lb \in LoadBys, f \in Files, passed \in SUBSET Params,
          n \in Overrides, r \in Overrides, d \in Overrides :
          \* only the overrides of the requested mode are ever read
          /\ lb = "name" => passed \subseteq {"namecol"}
          /\ lb = "coord" => passed \subseteq {"racol", "deccol"}
          /\ lb = "both" => passed = {}
          /\ "namecol" \notin passed => n = S_target_name
          /\ "racol" \notin passed => r = S_ra
          /\ "deccol" \notin passed => d = S_dec
          /\ args' = [filename |-> fn, load_by |-> lb, passed |-> passed,
                      namecol |-> Bind(passed, "namecol", n, S_target_name),
                      racol   |-> Bind(passed, "racol", r, S_ra),
                      deccol  |-> Bind(passed, "deccol", d, S_dec)]
          /\ file' = f
          /\ namecol' = Bind(passed, "namecol", n, S_target_name)
          /\ racol' = Bind(passed, "racol", r, S_ra)
          /\ deccol' = Bind(passed, "deccol", d, S_dec)
    /\ pc' = "check"
    /\ UNCHANGED <<df, fileOpened, extracted, result, err, errcol>>
    /\ UNCHANGED searchVars

\* the asserts without the one on the file extension
CheckArgs_NoExt ==
    /\ pc = "check"
    /\ IF args.load_by \notin {"name", "coord"}
       THEN Raise("AssertionError: load_by", <<>>)
       ELSE pc' = "read" /\ UNCHANGED <<err, errcol>>
    /\ UNCHANGED <<args, file, namecol, racol, deccol, df, fileOpened,
                   extracted, result>>
    /\ UNCHANGED searchVars

\* lines 363-367: the asserts on the arguments
CheckArgs ==
    /\ pc = "check"
    /\ IF args.load_by \notin {"name", "coord"}
       THEN Raise("AssertionError: load_by", <<>>)
       ELSE IF ~EndsWith(args.filename, DotCsv)
       THEN Raise("AssertionError: csv", <<>>)
       ELSE pc' = "read" /\ UNCHANGED <<err, errcol>>
    /\ UNCHANGED <<args, file, namecol, racol, deccol, df, fileOpened,
                   extracted, result>>
    /\ UNCHANGED searchVars

\* lines 368-369: read the file and normalise the column names
ReadFile ==
    /\ pc = "read"
    /\ fileOpened' = TRUE
    /\ IF ~file.exists
       THEN Raise("FileNotFoundError", <<>>) /\ UNCHANGED df
       ELSE /\ df' = RenameColumns(ReadCsv(file))
            /\ pc' = "resolve"
            /\ UNCHANGED <<err, errcol>>
    /\ UNCHANGED <<args, file, namecol, racol, deccol, extracted, result>>
    /\ UNCHANGED searchVars

\* lines 372-375: normalise namecol and assert that it is a column
ResolveName ==
    /\ pc = "resolve"
    /\ args.load_by = "name"
    /\ LET nc == Normalize(namecol) IN
         /\ namecol' = nc
         /\ IF nc # <<>> /\ Matches(df.columns, nc) = <<>>
            THEN Raise("AssertionError: column", nc)
            ELSE pc' = "extract" /\ UNCHANGED <<err, errcol>>
    /\ UNCHANGED <<args, file, racol, deccol, df, fileOpened, extracted, result>>
    /\ UNCHANGED searchVars

\* lines 376-377: targets = df[namecol] or df[df.columns[0]]; to_list()
ExtractName ==
    /\ pc = "extract"
    /\ args.load_by = "name"
    /\ LET label == IF namecol # <<>> THEN namecol ELSE df.columns[1]
           sel == Matches(df.columns, label)
       IN  IF sel = <<>>
           THEN Raise("KeyError", label) /\ UNCHANGED <<result, extracted>>
           ELSE /\ extracted' = TRUE
                /\ IF Len(sel) > 1
                   \* df[label] is a DataFrame, which has no to_list
                   THEN Raise("AttributeError", <<>>) /\ UNCHANGED result
                   ELSE /\ result' = ToList(df.data[sel[1]])
                        /\ pc' = "done"
                        /\ UNCHANGED <<err, errcol>>
    /\ UNCHANGED <<args, file, namecol, racol, deccol, df, fileOpened>>
    /\ UNCHANGED searchVars

\* the column asserts with the one on deccol left out
ResolveCoord_NoDecAssert ==
    /\ pc = "resolve"
    /\ args.load_by = "coord"
    /\ LET rc == Normalize(racol)
           dc == Normalize(deccol)
       IN  /\ racol' = rc
           /\ deccol' = dc
           /\ IF rc # <<>> /\ Matches(df.columns, rc) = <<>>
              THEN Raise("AssertionError: column", rc)
              ELSE pc' = "extract" /\ UNCHANGED <<err, errcol>>
    /\ UNCHANGED <<args, file, namecol, df, fileOpened, extracted, result>>
    /\ UNCHANGED searchVars

\* lines 380-386: normalise racol and deccol and assert that they are columns
ResolveCoord ==
    /\ pc = "resolve"
    /\ args.load_by = "coord"
    /\ LET rc == Normalize(racol)
           dc == Normalize(deccol)
       IN  /\ racol' = rc
           /\ deccol' = dc
           /\ IF rc # <<>> /\ Matches(df.columns, rc) = <<>>
              THEN Raise("AssertionError: column", rc)
              ELSE IF dc # <<>> /\ Matches(df.columns, dc) = <<>>
              THEN Raise("AssertionError: column", dc)
              ELSE pc' = "extract" /\ UNCHANGED <<err, errcol>>
    /\ UNCHANGED <<args, file, namecol, df, fileOpened, extracted, result>>
    /\ UNCHANGED searchVars

\* line 388: the labels the coordinate frame is selected by
CoordLabels ==
    IF racol # <<>> /\ deccol # <<>>
    THEN <<racol, deccol>>
    ELSE SubSeq(df.columns, 1, Min(2, Len(df.columns)))

\* lines 388-390: coord = df[[...]]; to_records(index=False).tolist()
ExtractCoord ==
    /\ pc = "extract"
    /\ args.load_by = "coord"
    /\ IF Missing(df.columns, CoordLabels)
       THEN Raise("KeyError", <<>>) /\ UNCHANGED <<result, extracted>>
       ELSE /\ extracted' = TRUE
            /\ result' = ToRecords(df, Select(df.columns, CoordLabels))
            /\ pc' = "done"
            /\ UNCHANGED <<err, errcol>>
    /\ UNCHANGED <<args, file, namecol, racol, deccol, df, fileOpened>>
    /\ UNCHANGED searchVars

----------------------------------------------------------------------------
(* The archive and astropy tables *)

TargetNames == {"A", "B", "C"}

\* programs of the archive: <<proposal_id, length of obs_title>>
Programs == { <<1, 60>>, <<2, 80>> }

\* obs_title is cut to this many characters (line 112)
TitleWidth == 70

ObsColumns == {"target_name", "proposal_id", "obs_title"}

ObsRow(t, prog) ==
    [c \in ObsColumns |->
        CASE c = "target_name" -> t
          [] c = "proposal_id" -> prog[1]
          [] c = "obs_title"   -> prog[2]]

\* the tables Observations.query_criteria may return for target t
QueryResults(t) ==
    { [colnames |-> ObsColumns,
       rows     |-> [r \in 1..Len(ps) |-> ObsRow(t, ps[r])]] :
         ps \in SeqsUpTo(Programs, MaxRecs) \ { <<>> } }

RECURSIVE ConcatRows(_)
ConcatRows(tables) ==
    IF tables = <<>> THEN <<>>
    ELSE Head(tables).rows \o ConcatRows(Tail(tables))

\* table.vstack(tables), defined for a non-empty list
VStack(tables) ==
    [colnames |-> UNION { tables[k].colnames : k \in 1..Len(tables) },
     rows     |-> ConcatRows(tables)]

\* get_program_URL(program_id), lines 85-89
get_program_URL(program_id) == <<"APT_LINK", program_id>>

\* display_results(obs), lines 111-112: the two column assignments
display_results(obs) ==
    [colnames |-> obs.colnames \cup {"proposal_URL"},
     rows     |-> [r \in 1..Len(obs.rows) |->
                    [c \in obs.colnames \cup {"proposal_URL"} |->
                        CASE c = "proposal_URL" -> get_program_URL(obs.rows[r]["proposal_id"])
                          [] c = "obs_title"    -> Min(obs.rows[r]["obs_title"], TitleWidth)
                          [] OTHER              -> obs.rows[r][c]]]]

----------------------------------------------------------------------------
(* The target-list search cells *)

InRange(seq, x) == \E k \in 1..Len(seq) : seq[k] = x

\* a list of keys instead of a dict: a repeated key is kept each time
DictKeys_Dup(list) == list

\* keys of {k: 0 for k in list}: a key is inserted where it first occurs
RECURSIVE DictKeys(_)
DictKeys(list) ==
    IF list = <<>> THEN <<>>
    ELSE LET before == DictKeys(SubSeq(list, 1, Len(list) - 1))
             k == list[Len(list)]
         IN  IF InRange(before, k) THEN before ELSE Append(before, k)

EmptyTable == [colnames |-> {}, rows |-> <<>>]

\* lines 267-269 and 445-448: targets = {k: 0 for k in list}
StartCount ==
    /\ spc = "idle"
    /\ \E list \in SeqsUpTo(TargetNames, MaxTargets) :
          /\ targetIds' = list
          /\ tKeys' = DictKeys(list)
          /\ tVals' = [k \in { list[j] : j \in 1..Len(list) } |-> 0]
    /\ it' = 1
    /\ spc' = "count"
    /\ UNCHANGED <<countLog, fetchLog, obs_list, target_matches, serr, fetched, ecsv>>
    /\ UNCHANGED loadVars

\* lines 270-275 and 449-454: one iteration, the count query returns n
CountQuery ==
    /\ spc = "count"
    /\ it <= Len(tKeys)
    /\ \E n \in 0..MaxCount :
          /\ tVals' = [tVals EXCEPT ![tKeys[it]] = n]
          /\ countLog' = Append(countLog, <<tKeys[it], n>>)
    /\ it' = it + 1
    /\ UNCHANGED <<spc, targetIds, tKeys, fetchLog, obs_list, target_matches, serr,
                   fetched, ecsv>>
    /\ UNCHANGED loadVars

\* lines 271-275: the count query raises, which ends the cell
CountQueryFails ==
    /\ spc = "count"
    /\ it <= Len(tKeys)
    /\ spc' = "error"
    /\ serr' = "QueryError: count"
    /\ UNCHANGED <<targetIds, tKeys, tVals, it, countLog, fetchLog, obs_list,
                   target_matches, fetched, ecsv>>
    /\ UNCHANGED loadVars

\* lines 277 and 293: the count loop is over; the fetch cell starts
StartFetch ==
    /\ spc = "count"
    /\ it > Len(tKeys)
    /\ obs_list' = <<>>
    /\ it' = 1
    /\ spc' = "fetch"
    /\ UNCHANGED <<targetIds, tKeys, tVals, countLog, fetchLog, target_matches, serr,
                   fetched, ecsv>>
    /\ UNCHANGED loadVars

\* the fetch loop with the test n >= 0 for n > 0
FetchStep_All ==
    /\ spc = "fetch"
    /\ it <= Len(tKeys)
    /\ IF tVals[tKeys[it]] >= 0
       THEN \E obs \in QueryResults(tKeys[it]) :
               /\ obs_list' = Append(obs_list, obs)
               /\ fetchLog' = Append(fetchLog, tKeys[it])
               /\ fetched' = fetched \o obs.rows
       ELSE UNCHANGED <<obs_list, fetchLog, fetched>>
    /\ it' = it + 1
    /\ UNCHANGED <<spc, targetIds, tKeys, tVals, countLog, target_matches, serr, ecsv>>
    /\ UNCHANGED loadVars

\* lines 294-301: one iteration of the fetch loop
FetchStep ==
    /\ spc = "fetch"
    /\ it <= Len(tKeys)
    /\ IF tVals[tKeys[it]] > 0
       THEN \E obs \in QueryResults(tKeys[it]) :
               /\ obs_list' = Append(obs_list, obs)
               /\ fetchLog' = Append(fetchLog, tKeys[it])
               /\ fetched' = fetched \o obs.rows
       ELSE UNCHANGED <<obs_list, fetchLog, fetched>>
    /\ it' = it + 1
    /\ UNCHANGED <<spc, targetIds, tKeys, tVals, countLog, target_matches, serr, ecsv>>
    /\ UNCHANGED loadVars

\* lines 296-300: the full query raises, which ends the cell
FetchQueryFails ==
    /\ spc = "fetch"
    /\ it <= Len(tKeys)
    /\ tVals[tKeys[it]] > 0
    /\ fetchLog' = Append(fetchLog, tKeys[it])
    /\ spc' = "error"
    /\ serr' = "QueryError: fetch"
    /\ UNCHANGED <<targetIds, tKeys, tVals, it, countLog, obs_list, target_matches,
                   fetched, ecsv>>
    /\ UNCHANGED loadVars

\* line 303: target_matches = table.vstack(obs_list)
Stack ==
    /\ spc = "fetch"
    /\ it > Len(tKeys)
    /\ IF obs_list = <<>>
       \* vstack of an empty list raises (no values provided to stack)
       THEN /\ spc' = "error"
            /\ serr' = "StackError"
            /\ UNCHANGED target_matches
       ELSE /\ target_matches' = VStack(obs_list)
            /\ spc' = "display"
            /\ UNCHANGED serr
    /\ UNCHANGED <<targetIds, tKeys, tVals, it, countLog, fetchLog, obs_list,
                   fetched, ecsv>>
    /\ UNCHANGED loadVars

\* line 304: display_results(target_matches) assigns columns of its argument;
\* vstack of a single table returns that table itself, which then is obs_list[0]
Display ==
    /\ spc = "display"
    /\ target_matches' = display_results(target_matches)
    /\ obs_list' = IF Len(obs_list) = 1
                   THEN <<display_results(obs_list[1])>>
                   ELSE obs_list
    /\ spc' = "done"
    /\ UNCHANGED <<targetIds, tKeys, tVals, it, countLog, fetchLog, serr, fetched, ecsv>>
    /\ UNCHANGED loadVars

\* line 320: target_matches.write('target_matches.ecsv', format='ascii.ecsv')
Write ==
    /\ spc = "done"
    /\ ecsv' = target_matches
    /\ spc' = "written"
    /\ UNCHANGED <<targetIds, tKeys, tVals, it, countLog, fetchLog, obs_list,
                   target_matches, serr, fetched>>
    /\ UNCHANGED loadVars

InitLoad ==
    /\ pc = "idle"
    /\ args = [filename |-> <<>>, load_by |-> "name", passed |-> {},
               namecol |-> S_target_name, racol |-> S_ra, deccol |-> S_dec]
    /\ file = NoFile
    /\ namecol = S_target_name
    /\ racol = S_ra
    /\ deccol = S_dec
    /\ df = EmptyDf
    /\ fileOpened = FALSE
    /\ extracted = FALSE
    /\ result = <<>>
    /\ err = ""
    /\ errcol = <<>>

InitSearch ==
    /\ spc = "idle"
    /\ targetIds = <<>>
    /\ tKeys = <<>>
    /\ tVals = <<>>
    /\ it = 1
    /\ countLog = <<>>
    /\ fetchLog = <<>>
    /\ obs_list = <<>>
    /\ target_matches = EmptyTable
    /\ serr = ""
    /\ fetched = <<>>
    /\ ecsv = EmptyTable

Init == InitLoad /\ InitSearch

Next ==
    \/ Call
    \/ CheckArgs
    \/ ReadFile
    \/ ResolveName
    \/ ExtractName
    \/ ResolveCoord
    \/ ExtractCoord

Spec == Init /\ [][Next]_vars

SearchNext ==
    \/ StartCount
    \/ CountQuery
    \/ CountQueryFails
    \/ StartFetch
    \/ FetchStep
    \/ FetchQueryFails
    \/ Stack
    \/ Display
    \/ Write

SearchSpec == Init /\ [][SearchNext]_vars

----------------------------------------------------------------------------
(* What the claims speak of, read off the file and the call's arguments *)

Returned == pc = "done"
Terminal == pc \in {"done", "error"}

ArgsOk ==
    /\ args.load_by \in {"name", "coord"}
    /\ EndsWith(args.filename, DotCsv)

\* the file's normalized header names
NormHeader(f) == [k \in 1..Len(f.header) |-> Normalize(f.header[k])]

\* a CSV file that exists and whose normalized header names are distinct
ValidCsv(f) ==
    /\ f.exists
    /\ \A j, k \in 1..Len(f.header) :
          NormHeader(f)[j] = NormHeader(f)[k] => j = k

\* an override counts as supplied when it is not empty after normalization
Supplied(name) == Normalize(name) # <<>>

InHeader(f, name) == \E k \in 1..Len(f.header) : NormHeader(f)[k] = Normalize(name)

HeaderIdx(f, name) == CHOOSE k \in 1..Len(f.header) : NormHeader(f)[k] = Normalize(name)

\* the values of column k of the file, row by row
FileColumn(f, k) == [i \in 1..Len(f.rows) |-> f.rows[i][k]]

NameCall == Terminal /\ ArgsOk /\ args.load_by = "name" /\ ValidCsv(file)
CoordCall ==
    Terminal /\ ArgsOk /\ args.load_by = "coord" /\ ValidCsv(file) /\ Len(file.header) >= 2

----------------------------------------------------------------------------
\* the column the name resolves to: the override's, or the first
C1_NameIdx ==
    IF Supplied(args.namecol) THEN HeaderIdx(file, args.namecol) ELSE 1

(* C1: in name mode, for a valid CSV file and a name column that resolves  *)
(* (an override that names a header, or no override and hence the first    *)
(* column), the call returns a list with one element per data row, in row  *)
(* order, duplicates kept, the i-th being the name-column value of row i.  *)

C1_NameModeRows ==
    (NameCall /\ (Supplied(args.namecol) => InHeader(file, args.namecol)))
        => /\ Returned
           /\ Len(result) = Len(file.rows)
           /\ \A i \in 1..Len(file.rows) : result[i] = file.rows[i][C1_NameIdx]

\* a name-mode call that returned two equal rows from a column that is not the first
C1_Witness ==
    /\ NameCall /\ Returned
    /\ Supplied(args.namecol)
    /\ C1_NameIdx = 2
    /\ Len(result) = 2
    /\ result[1] = result[2]

----------------------------------------------------------------------------
\* every supplied coordinate override names a header of the file
C2_OverridesResolve ==
    /\ Supplied(args.racol) => InHeader(file, args.racol)
    /\ Supplied(args.deccol) => InHeader(file, args.deccol)

(* C2: in coord mode, for a valid CSV file, the call returns one pair per  *)
(* data row in row order, whose first component is the row's value in the  *)
(* resolved RA column and whose second is its value in the resolved Dec    *)
(* column: a supplied override names the column, and with no override      *)
(* the first column is RA and the second is Dec.                           *)

C2_CoordPairs ==
    (CoordCall /\ C2_OverridesResolve)
        => /\ Returned
           /\ Len(result) = Len(file.rows)
           /\ \A i \in 1..Len(file.rows) :
                /\ Len(result[i]) = 2
                /\ Supplied(args.racol) =>
                      result[i][1] = file.rows[i][HeaderIdx(file, args.racol)]
                /\ Supplied(args.deccol) =>
                      result[i][2] = file.rows[i][HeaderIdx(file, args.deccol)]
                /\ (~Supplied(args.racol) /\ ~Supplied(args.deccol)) =>
                      result[i] = <<file.rows[i][1], file.rows[i][2]>>

----------------------------------------------------------------------------
(* C3: in coord mode a supplied override is never ignored: when racol is   *)
(* supplied the RA component of every returned pair is taken from the      *)
(* column racol names, and likewise for deccol, also when the other        *)
(* override is empty.                                                      *)

C3_OverrideHonoured ==
    (CoordCall /\ Returned /\ C2_OverridesResolve)
        => /\ Supplied(args.racol) =>
                FileColumn(file, HeaderIdx(file, args.racol)) =
                    [i \in 1..Len(result) |-> result[i][1]]
           /\ Supplied(args.deccol) =>
                FileColumn(file, HeaderIdx(file, args.deccol)) =
                    [i \in 1..Len(result) |-> result[i][Len(result[i])]]

----------------------------------------------------------------------------
(* C4: a name-mode call that passes no namecol argument returns the values *)
(* of the file's first column, whatever its name, and does not fail for    *)
(* want of a column named target_name.                                     *)

C4_DefaultIsFirstColumn ==
    (NameCall /\ "namecol" \notin args.passed)
        => /\ Returned
           /\ result = FileColumn(file, 1)

----------------------------------------------------------------------------
\* the first override of the call, in the order the code checks them, that is absent
C5_FirstAbsent ==
    IF args.load_by = "name" THEN args.namecol
    ELSE IF Supplied(args.racol) /\ ~InHeader(file, args.racol) THEN args.racol
    ELSE args.deccol

\* some supplied override of the requested mode is absent from the header
C5_SomeAbsent ==
    IF args.load_by = "name"
    THEN Supplied(args.namecol) /\ ~InHeader(file, args.namecol)
    ELSE \/ Supplied(args.racol) /\ ~InHeader(file, args.racol)
         \/ Supplied(args.deccol) /\ ~InHeader(file, args.deccol)

(* C5: a supplied override whose normalized form is not one of the file's  *)
(* normalized header names makes the call fail with the assertion error    *)
(* that names that column, with no list returned and before any row value  *)
(* is extracted; the error is a function of the inputs.                    *)

C5_MissingOverrideFails ==
    (Terminal /\ ArgsOk /\ ValidCsv(file) /\ C5_SomeAbsent)
        => /\ pc = "error"
           /\ err = "AssertionError: column"
           /\ errcol = Normalize(C5_FirstAbsent)
           /\ ~extracted
           /\ result = <<>>

\* a coord-mode call that failed on deccol alone, on a file with data rows
C5_Witness ==
    /\ Terminal /\ ArgsOk /\ ValidCsv(file) /\ C5_SomeAbsent
    /\ args.load_by = "coord"
    /\ InHeader(file, args.racol)
    /\ errcol = Normalize(args.deccol)
    /\ Len(file.rows) > 0

----------------------------------------------------------------------------
\* the assert that fails first: load_by (line 364) before the extension (line 367)
C6_ExpectedError ==
    IF args.load_by \notin {"name", "coord"}
    THEN "AssertionError: load_by"
    ELSE "AssertionError: csv"

(* C6: a call whose filename does not end in .csv, or whose load_by is     *)
(* neither name nor coord, fails with an assertion error before the file   *)
(* is opened, whatever the file holds and whether or not it exists.        *)

C6_BadArgsFailFirst ==
    (pc \notin {"idle", "check"} /\ ~ArgsOk)
        => /\ pc = "error"
           /\ err = C6_ExpectedError
           /\ ~fileOpened
           /\ result = <<>>

\* a call with a good load_by and a bad extension, on a file that exists and has rows
C6_Witness ==
    /\ pc = "error"
    /\ args.load_by = "coord"
    /\ ~EndsWith(args.filename, DotCsv)
    /\ file.exists
    /\ Len(file.rows) > 0

----------------------------------------------------------------------------
(* C7: column lookup is case- and whitespace-insensitive: on a file whose  *)
(* normalized header names are distinct, a supplied override matches a     *)
(* header exactly when their normalized forms are equal, and then selects  *)
(* that one column.                                                        *)

----------------------------------------------------------------------------
(* What the search claims speak of *)

KeySet == { tKeys[k] : k \in 1..Len(tKeys) }

\* the count loop has run to its end
CountLoopOver ==
    \/ spc = "count" /\ it > Len(tKeys)
    \/ spc \in {"fetch", "display", "done", "written"}
    \/ spc = "error" /\ serr # "QueryError: count"

\* the fetch loop has run to its end
FetchLoopOver ==
    \/ spc = "fetch" /\ it > Len(tKeys)
    \/ spc \in {"display", "done", "written"}
    \/ spc = "error" /\ serr = "StackError"

\* position of the first occurrence of x in seq
FirstIdx(seq, x) == CHOOSE k \in 1..Len(seq) :
                        seq[k] = x /\ \A j \in 1..(k - 1) : seq[j] # x

----------------------------------------------------------------------------
(* C8: zero matches are a normal outcome: whatever counts the archive      *)
(* returns for a non-empty list of targets, all of them zero included, the *)
(* search raises no error of its own: the only errors that end it are      *)
(* those the archive queries raise.                                        *)

C8_ZeroMatchesNormal ==
    (spc = "error" /\ tKeys # <<>>)
        => serr \in {"QueryError: count", "QueryError: fetch"}

----------------------------------------------------------------------------
(* C9: a full query is issued for a target only after its count query has  *)
(* returned a count greater than zero; once the fetch loop is over the     *)
(* targets fetched are exactly those whose count is greater than zero;     *)
(* fetches are issued in the key order of the count map.                   *)

C9_FetchAfterPositiveCount ==
    /\ \A k \in 1..Len(fetchLog) :
          /\ CountLoopOver
          /\ \E j \in 1..Len(countLog) :
                countLog[j][1] = fetchLog[k] /\ countLog[j][2] > 0
    /\ FetchLoopOver =>
          { fetchLog[k] : k \in 1..Len(fetchLog) } = { t \in KeySet : tVals[t] > 0 }
    /\ \A j, k \in 1..Len(fetchLog) :
          j < k => \E a, b \in 1..Len(tKeys) :
                      a < b /\ tKeys[a] = fetchLog[j] /\ tKeys[b] = fetchLog[k]

\* counts {first key: 0, second key: 2}: exactly the second key was fetched
C9_Witness ==
    /\ spc = "done"
    /\ Len(tKeys) = 2
    /\ tVals[tKeys[1]] = 0
    /\ tVals[tKeys[2]] = 2
    /\ fetchLog = <<tKeys[2]>>

----------------------------------------------------------------------------
(* C10: the count map has one entry per distinct identifier of the list,   *)
(* in order of first occurrence; one count query is issued per entry, in   *)
(* key order; after the loop each entry holds the count its own target's   *)
(* query returned.                                                         *)

C10_CountMap ==
    spc # "idle" =>
       /\ KeySet = { targetIds[j] : j \in 1..Len(targetIds) }
       /\ DOMAIN tVals = KeySet
       /\ \A a, b \in 1..Len(tKeys) :
             /\ tKeys[a] = tKeys[b] => a = b
             /\ a < b => FirstIdx(targetIds, tKeys[a]) < FirstIdx(targetIds, tKeys[b])
       /\ Len(countLog) <= Len(tKeys)
       /\ \A k \in 1..Len(countLog) : countLog[k][1] = tKeys[k]
       /\ spc = "count" => Len(countLog) = it - 1
       /\ CountLoopOver =>
             /\ Len(countLog) = Len(tKeys)
             /\ \A k \in 1..Len(tKeys) : tVals[tKeys[k]] = countLog[k][2]

\* a list with a repeated identifier, its two entries counted differently
C10_Witness ==
    /\ CountLoopOver
    /\ Len(targetIds) = 3
    /\ targetIds[1] = targetIds[3]
    /\ Len(tKeys) = 2
    /\ tVals[tKeys[1]] = 1
    /\ tVals[tKeys[2]] = 2

----------------------------------------------------------------------------
(* C11: the per-target count operation is atomic with respect to failure:  *)
(* once a count query has failed, the count map shows nothing of the       *)
(* queries that went before it, so no state after a failure holds real     *)
(* counts for the targets already queried beside the placeholder zeros of  *)
(* the targets not yet queried.                                            *)

C11_CountAtomic ==
    (spc = "error" /\ serr = "QueryError: count")
        => \A t \in KeySet : tVals[t] = 0

----------------------------------------------------------------------------
(* C12: no result table is changed after it is created: display_results    *)
(* leaves the table it is given with the columns and the obs_title values   *)
(* the fetch queries returned, and so does the table written to the         *)
(* results file.                                                            *)

\* table t has the columns and, row by row, the titles the queries returned
C12_AsFetched(t) ==
    /\ t.colnames = ObsColumns
    /\ Len(t.rows) = Len(fetched)
    /\ \A r \in 1..Len(fetched) : t.rows[r]["obs_title"] = fetched[r]["obs_title"]

C12_DisplayLeavesTable ==
    /\ spc \in {"display", "done", "written"} => C12_AsFetched(target_matches)
    /\ spc = "written" => C12_AsFetched(ecsv)

====
